---- MODULE Spec2Model ----
(***************************************************************************)
(* Model of the POST /analyze handler of src/app.py (analyze_text): the    *)
(* request validation, the four analyzers run one after the other, the     *)
(* per-analyzer warning bookkeeping, the extractive summarizer and the     *)
(* shaping of the response.                                                *)
(*                                                                         *)
(* The wrapped libraries (TextBlob, spaCy, NRCLex) are external: each call *)
(* either raises or returns a value drawn from a small set.  A text is     *)
(* held already tokenized, as the spaCy Doc the code iterates: a sequence  *)
(* of sentences, each a sequence of token texts, after some leading        *)
(* whitespace.  Floating point quotients are held as exact fractions.      *)
(***************************************************************************)
EXTENDS Integers, Sequences, FiniteSets, TLC

VARIABLES
    nlp,                \* the module-level model handle: "loaded" or "none"
    data,               \* request.get_json() of the request being served
    pc,                 \* position of the handler
    response_data,      \* the dict built by the handler
    response,           \* what the handler returned: status and body
    calls,              \* the library calls made so far, in order
    stages,             \* the analyzer sections gone through, with how each ended
    polarity,           \* sentiment local: blob.sentiment.polarity
    word_frequencies,   \* summarizer local
    sentence_scores,    \* summarizer local: keys in insertion order, values
    summary_sentences   \* summarizer local: result of nlargest

vars == <<nlp, data, pc, response_data, response, calls, stages, polarity,
          word_frequencies, sentence_scores, summary_sentences>>

----------------------------------------------------------------------------
(* Bounds of the model *)

\* longest document, in sentences, of a request in Spec
MaxReqSents == 2

\* longest document, in sentences, given to the summarizer in SpecSum
MaxSents == 7

----------------------------------------------------------------------------
(* Texts *)

\* str.lower() on the token texts of the model
Lower(w) ==
    CASE w = "Apple" -> "apple"
      [] w = "The"   -> "the"
      [] OTHER       -> w

\* nlp.Defaults.stop_words, restricted to the vocabulary
stopwords == {"the"}

\* string.punctuation, restricted to the vocabulary
punctuation == {"."}

\* the sentences a document is made of
SentPool ==
    { <<"cat", ".">>,
      <<"Apple", "apple", "cat", ".">>,
      <<"Apple", ".">>,
      <<"The", "the", ".">> }

\* the sentences of the longer documents given to the summarizer alone
SumPool == SentPool \ { <<"The", "the", ".">> }

Docs(pool, n) == UNION { [1..k -> pool] : k \in 0..n }

\* number of leading whitespace characters of a text
Pads == {0, 1}

\* a JSON value found under the key 'text'
StrText(pad, sents) == [type |-> "str", pad |-> pad, sents |-> sents]
NonStrText(t) == [type |-> t, pad |-> 0, sents |-> << >>]

TextValues(n) ==
    { StrText(p, d) : p \in Pads, d \in Docs(SentPool, n) }
        \cup { NonStrText(t) : t \in {"null", "number", "list"} }

\* str.strip()
Strip(text) == [text EXCEPT !.pad = 0]

\* truth value of a str: the empty string is false
Truthy(text) == text.pad > 0 \/ text.sents # << >>

\* the bodies get_json() can return: None, or a JSON object with some keys
Bodies(n) ==
    { [kind |-> "none", keys |-> {}, text |-> NonStrText("null")] }
        \cup { [kind |-> "object", keys |-> ks, text |-> NonStrText("null")] :
                 ks \in {{}, {"lang"}} }
        \cup { [kind |-> "object", keys |-> ks, text |-> t] :
                 ks \in {{"text"}, {"text", "lang"}}, t \in TextValues(n) }

----------------------------------------------------------------------------
(* Exact fractions, for the float quotients of the summarizer *)

Frac(n, d) == [num |-> n, den |-> d]

FracAdd(a, b) ==
    IF a.den = b.den
    THEN Frac(a.num + b.num, a.den)
    ELSE Frac(a.num * b.den + b.num * a.den, a.den * b.den)

FracGreater(a, b) == a.num * b.den > b.num * a.den

----------------------------------------------------------------------------
(* Request validation *)

\* `not data`: None and the empty object are false
Falsy(d) == d.kind = "none" \/ d.keys = {}

\* `not data or 'text' not in data`
NoText(d) == Falsy(d) \/ "text" \notin d.keys

\* `text.strip()` exists only on a str: anything else raises AttributeError
StripRaises(text) == text.type # "str"

\* the test written without strip()
IsBlankNoStrip(text) == ~Truthy(text)

\* `not text.strip()`
IsBlank(text) == ~Truthy(Strip(text))

\* the dict the handler starts from
InitialResponseData ==
    [ sentiment |-> [label |-> "Unknown", score |-> 0],
      entities  |-> << >>,
      emotions  |-> {},
      summary   |-> << >>,
      warnings  |-> << >> ]

NoResponse == [status |-> 0, body |-> [error |-> ""]]

ErrorResponse(status, msg) == [status |-> status, body |-> [error |-> msg]]

----------------------------------------------------------------------------
(* Sentiment *)

\* polarity is held in hundredths: 10 stands for 0.1
Threshold == 10

Polarities == {-100, -11, -10, 0, 10, 11, 100}

\* the thresholds taken inclusive
SentimentLabelInclusive(p) ==
    IF p >= Threshold THEN "Positive"
    ELSE IF p <= -Threshold THEN "Negative"
    ELSE "Neutral"

\* lines 114-119
SentimentLabel(p) ==
    IF p > Threshold THEN "Positive"
    ELSE IF p < -Threshold THEN "Negative"
    ELSE "Neutral"

\* what doc.ents can hold
EntityResults ==
    { << >>, << [text |-> "Apple", label |-> "ORG"] >> }

\* what raw_emotion_scores can hold, as a set of (emotion, count) pairs
EmotionResults ==
    { {}, { <<"joy", 1>> } }

----------------------------------------------------------------------------
(* Extractive summarizer *)

EmptyDict == [w \in {} |-> 0]

NoScores == [keys |-> << >>, val |-> EmptyDict]

RECURSIVE DocTokens(_)
\* the tokens of the Doc, in order
DocTokens(doc) ==
    IF doc = << >> THEN << >> ELSE Head(doc) \o DocTokens(Tail(doc))

\* the test that lets a token into the frequency table
Qualifies(w) == Lower(w) \notin stopwords /\ Lower(w) \notin punctuation

RECURSIVE CountWords(_, _, _)
\* the loop filling word_frequencies, from token i on
CountWords(toks, i, wf) ==
    IF i > Len(toks) THEN wf
    ELSE LET w == toks[i] IN
         IF Qualifies(w)
         THEN IF w \notin DOMAIN wf
              THEN CountWords(toks, i + 1, wf @@ (w :> 1))
              ELSE CountWords(toks, i + 1, [wf EXCEPT ![w] = @ + 1])
         ELSE CountWords(toks, i + 1, wf)

RawFrequencies(doc) == CountWords(DocTokens(doc), 1, EmptyDict)

MaxOf(S) == CHOOSE m \in S : \A x \in S : x <= m

\* max(word_frequencies.values()) if word_frequencies else 0
MaxFrequency(wf) ==
    IF DOMAIN wf = {} THEN 0 ELSE MaxOf({ wf[w] : w \in DOMAIN wf })

\* the normalizing loop: every count divided by the largest one
Normalize(wf) ==
    LET max_frequency == MaxFrequency(wf) IN
    [ w \in DOMAIN wf |->
        IF max_frequency > 0 THEN Frac(wf[w], max_frequency) ELSE Frac(wf[w], 1) ]

\* whether the scoring loop creates an entry for the sentence
Scored(sent, wf) == \E j \in 1..Len(sent) : Lower(sent[j]) \in DOMAIN wf

RECURSIVE SentScore(_, _, _, _)
\* the value the scoring loop leaves under the sentence: acc, then the
\* frequencies of the tokens from j on whose lower-cased text is a key
SentScore(sent, j, wf, acc) ==
    IF j > Len(sent) THEN acc
    ELSE IF Lower(sent[j]) \in DOMAIN wf
         THEN SentScore(sent, j + 1, wf, FracAdd(acc, wf[Lower(sent[j])]))
         ELSE SentScore(sent, j + 1, wf, acc)

\* sentence_scores: the sentences (by position) that got an entry, in
\* insertion order, and the score of each
SentenceScores(doc, wf) ==
    LET has == { i \in 1..Len(doc) : Scored(doc[i], wf) }
        idx == [ i \in 1..Len(doc) |-> i ]
    IN  [ keys |-> SelectSeq(idx, LAMBDA i : i \in has),
          val  |-> [ i \in has |-> SentScore(doc[i], 1, wf, Frac(0, 1)) ] ]

SelectNum == 3
SelectDen == 10

\* max(int(len(sentence_tokens) * 0.3), 1)
SelectLength(n) ==
    LET k == (n * SelectNum) \div SelectDen IN IF k > 1 THEN k ELSE 1

\* the first key no other key beats
Best(keys, val) ==
    LET pos == CHOOSE p \in 1..Len(keys) :
                 /\ \A q \in 1..Len(keys) : ~FracGreater(val[keys[q]], val[keys[p]])
                 /\ \A q \in 1..(p - 1) : FracGreater(val[keys[p]], val[keys[q]])
    IN  keys[pos]

\* the n best sentences put back in document order
NLargestDocOrder(n, keys, val) ==
    LET RECURSIVE Pick(_, _)
        Pick(m, ks) ==
            IF m = 0 \/ ks = << >> THEN {}
            ELSE LET b == Best(ks, val) IN
                 {b} \cup Pick(m - 1, SelectSeq(ks, LAMBDA k : k # b))
        chosen == Pick(n, keys)
    IN  SelectSeq(keys, LAMBDA k : k \in chosen)

RECURSIVE NLargest(_, _, _)
\* heapq.nlargest(n, keys, key=val.get): sorted(keys, key, reverse=True)[:n],
\* a stable sort, so equal scores keep their insertion order
NLargest(n, keys, val) ==
    IF n = 0 \/ keys = << >> THEN << >>
    ELSE LET b == Best(keys, val) IN
         <<b>> \o NLargest(n - 1, SelectSeq(keys, LAMBDA k : k # b), val)

\* [s.text for s in summary_sentences], to be joined by " "
Join(doc, picked) == [ i \in 1..Len(picked) |-> doc[picked[i]] ]

----------------------------------------------------------------------------
(* The handler, one action per section *)

Text == data.text

\* the list assigned instead of appended to
WarnReset(rd, msg) == [rd EXCEPT !.warnings = <<msg>>]

\* response_data['warnings'].append(msg)
Warn(rd, msg) == [rd EXCEPT !.warnings = Append(@, msg)]

Stage(name, outcome) == [name |-> name, outcome |-> outcome]

\* lines 92-108 and 205-207: get_json, the two validation tests, the
\* initial dict; an exception here reaches the outermost handler
Validate ==
    /\ pc = "start"
    /\ IF NoText(data)
       THEN /\ response' = ErrorResponse(400, "No text provided")
            /\ pc' = "done"
            /\ UNCHANGED response_data
       ELSE IF StripRaises(Text)
       THEN /\ response' = ErrorResponse(500, "Internal server error")
            /\ pc' = "done"
            /\ UNCHANGED response_data
       ELSE IF IsBlank(Text)
       THEN /\ response' = ErrorResponse(400, "Empty text provided")
            /\ pc' = "done"
            /\ UNCHANGED response_data
       ELSE /\ response_data' = InitialResponseData
            /\ pc' = "sentiment"
            /\ UNCHANGED response
    /\ UNCHANGED <<nlp, data, calls, stages, polarity,
                   word_frequencies, sentence_scores, summary_sentences>>

\* lines 110-127
SentimentAnalysis ==
    /\ pc = "sentiment"
    /\ calls' = Append(calls, "TextBlob")
    /\ \/ \E p \in Polarities :
            /\ polarity' = p
            /\ response_data' =
                 [response_data EXCEPT
                    !.sentiment = [label |-> SentimentLabel(p), score |-> p]]
            /\ stages' = Append(stages, Stage("sentiment", "ok"))
       \/ /\ response_data' = Warn(response_data, "Sentiment analysis failed")
          /\ stages' = Append(stages, Stage("sentiment", "failed"))
          /\ UNCHANGED polarity
    /\ pc' = "ner"
    /\ UNCHANGED <<nlp, data, response,
                   word_frequencies, sentence_scores, summary_sentences>>

\* the section without its test of the handle: nlp(text) on None raises
NamedEntityRecognitionNoTest ==
    /\ pc = "ner"
    /\ calls' = Append(calls, "nlp")
    /\ \/ /\ nlp # "none"
          /\ \E entities \in EntityResults :
               response_data' = [response_data EXCEPT !.entities = entities]
          /\ stages' = Append(stages, Stage("ner", "ok"))
       \/ /\ response_data' =
               Warn(response_data, "Named Entity Recognition failed")
          /\ stages' = Append(stages, Stage("ner", "failed"))
    /\ pc' = "emotion"
    /\ UNCHANGED <<nlp, data, response, polarity,
                   word_frequencies, sentence_scores, summary_sentences>>

\* lines 129-139
NamedEntityRecognition ==
    /\ pc = "ner"
    /\ IF nlp # "none"
       THEN /\ calls' = Append(calls, "nlp")
            /\ \/ /\ \E entities \in EntityResults :
                       response_data' =
                           [response_data EXCEPT !.entities = entities]
                  /\ stages' = Append(stages, Stage("ner", "ok"))
               \/ /\ response_data' =
                       Warn(response_data, "Named Entity Recognition failed")
                  /\ stages' = Append(stages, Stage("ner", "failed"))
       ELSE /\ calls' = calls
            /\ response_data' =
                 Warn(response_data, "spaCy model not available - NER disabled")
            /\ stages' = Append(stages, Stage("ner", "disabled"))
    /\ pc' = "emotion"
    /\ UNCHANGED <<nlp, data, response, polarity,
                   word_frequencies, sentence_scores, summary_sentences>>

\* the section without its try: the exception reaches the outermost handler
EmotionAnalysisUncaught ==
    /\ pc = "emotion"
    /\ calls' = Append(calls, "NRCLex")
    /\ \/ /\ \E emotions \in EmotionResults :
               response_data' = [response_data EXCEPT !.emotions = emotions]
          /\ stages' = Append(stages, Stage("emotion", "ok"))
          /\ pc' = "summarize"
          /\ UNCHANGED response
       \/ /\ response' = ErrorResponse(500, "Internal server error")
          /\ stages' = Append(stages, Stage("emotion", "failed"))
          /\ pc' = "done"
          /\ UNCHANGED response_data
    /\ UNCHANGED <<nlp, data, polarity,
                   word_frequencies, sentence_scores, summary_sentences>>

\* lines 141-148
EmotionAnalysis ==
    /\ pc = "emotion"
    /\ calls' = Append(calls, "NRCLex")
    /\ \/ /\ \E emotions \in EmotionResults :
               response_data' = [response_data EXCEPT !.emotions = emotions]
          /\ stages' = Append(stages, Stage("emotion", "ok"))
       \/ /\ response_data' = Warn(response_data, "Emotion analysis failed")
          /\ stages' = Append(stages, Stage("emotion", "failed"))
    /\ pc' = "summarize"
    /\ UNCHANGED <<nlp, data, response, polarity,
                   word_frequencies, sentence_scores, summary_sentences>>

\* the places of the summarizer's try block where an exception can leave it
SumFailPoints == {"doc", "frequencies", "scores", "select"}

\* lines 152-192, the try block: the locals it has assigned when it leaves
\* at `stop` ("end": it ran through), and the summary it stores at its end
SummarizerRun(doc, stop) ==
    LET wf     == Normalize(RawFrequencies(doc))
        scores == SentenceScores(doc, wf)
        picked == NLargest(SelectLength(Len(doc)), scores.keys, scores.val)
    IN  [ word_frequencies  |-> IF stop = "doc" THEN EmptyDict ELSE wf,
          sentence_scores   |-> IF stop \in {"doc", "frequencies"}
                                THEN NoScores ELSE scores,
          summary_sentences |-> IF stop \in {"select", "end"}
                                THEN picked ELSE << >>,
          stored            |-> stop = "end",
          summary           |-> Join(doc, picked) ]

\* lines 150-197
Summarization ==
    /\ pc = "summarize"
    /\ IF nlp # "none"
       THEN /\ calls' = Append(calls, "nlp")
            /\ \E stop \in SumFailPoints \cup {"end"} :
                 LET run == SummarizerRun(Text.sents, stop) IN
                 /\ word_frequencies' = run.word_frequencies
                 /\ sentence_scores' = run.sentence_scores
                 /\ summary_sentences' = run.summary_sentences
                 /\ IF run.stored
                    THEN /\ response_data' =
                              [response_data EXCEPT !.summary = run.summary]
                         /\ stages' = Append(stages, Stage("summarize", "ok"))
                    ELSE /\ response_data' =
                              Warn(response_data, "Text summarization failed")
                         /\ stages' =
                              Append(stages, Stage("summarize", "failed"))
       ELSE /\ calls' = calls
            /\ response_data' =
                 Warn(response_data,
                      "spaCy model not available - summarization disabled")
            /\ stages' = Append(stages, Stage("summarize", "disabled"))
            /\ UNCHANGED <<word_frequencies, sentence_scores, summary_sentences>>
    /\ pc' = "finish"
    /\ UNCHANGED <<nlp, data, response, polarity>>

\* the dict returned with its 'warnings' key whatever it holds
ResponseBodyKeep(rd) == rd

\* lines 199-201: the dict as returned, without 'warnings' when it is empty
ResponseBody(rd) ==
    IF rd.warnings = << >>
    THEN [ sentiment |-> rd.sentiment, entities |-> rd.entities,
           emotions |-> rd.emotions, summary |-> rd.summary ]
    ELSE rd

\* lines 199-203
Respond ==
    /\ pc = "finish"
    /\ response' = [status |-> 200, body |-> ResponseBody(response_data)]
    /\ pc' = "done"
    /\ UNCHANGED <<nlp, data, response_data, calls, stages, polarity,
                   word_frequencies, sentence_scores, summary_sentences>>

----------------------------------------------------------------------------
(* Specifications *)

\* a request arrives at a process whose model handle loaded or did not
Init ==
    /\ nlp \in {"loaded", "none"}
    /\ data \in Bodies(MaxReqSents)
    /\ pc = "start"
    /\ response_data = InitialResponseData
    /\ response = NoResponse
    /\ calls = << >>
    /\ stages = << >>
    /\ polarity = 0
    /\ word_frequencies = EmptyDict
    /\ sentence_scores = NoScores
    /\ summary_sentences = << >>

Next ==
    \/ Validate
    \/ SentimentAnalysis
    \/ NamedEntityRecognition
    \/ EmotionAnalysis
    \/ Summarization
    \/ Respond

Spec == Init /\ [][Next]_vars

\* the summarizer on longer documents: the handler with the model loaded,
\* about to summarize, the first three analyzers having succeeded
InitSum ==
    /\ nlp = "loaded"
    /\ \E d \in Docs(SumPool, MaxSents) \ {<< >>} :
         data = [kind |-> "object", keys |-> {"text"}, text |-> StrText(0, d)]
    /\ pc = "summarize"
    /\ response_data =
         [InitialResponseData EXCEPT
            !.sentiment = [label |-> SentimentLabel(0), score |-> 0]]
    /\ response = NoResponse
    /\ calls = <<"TextBlob", "nlp", "NRCLex">>
    /\ stages = <<Stage("sentiment", "ok"), Stage("ner", "ok"),
                  Stage("emotion", "ok")>>
    /\ polarity = 0
    /\ word_frequencies = EmptyDict
    /\ sentence_scores = NoScores
    /\ summary_sentences = << >>

NextSum ==
    \/ Summarization
    \/ Respond

SpecSum == InitSum /\ [][NextSum]_vars

----------------------------------------------------------------------------
(* Properties *)

\* the request carries a text that is a string and is not blank
NonBlankText ==
    /\ data.kind = "object"
    /\ "text" \in data.keys
    /\ Text.type = "str"
    /\ Text.sents # << >>

\* the request carries no text at all
MissingText == data.kind = "none" \/ "text" \notin data.keys

\* the request carries a string that is empty or only whitespace
BlankText ==
    /\ data.kind = "object"
    /\ "text" \in data.keys
    /\ Text.type = "str"
    /\ Text.sents = << >>

StageNames == <<"sentiment", "ner", "emotion", "summarize">>

Outcome(name) ==
    LET i == CHOOSE k \in 1..Len(stages) : stages[k].name = name
    IN  stages[i].outcome

Ended(name, outcome) ==
    \E k \in 1..Len(stages) : stages[k] = Stage(name, outcome)

\* the warning each section gives when it does not succeed
ExpectedWarning(st) ==
    CASE st = Stage("sentiment", "failed") -> "Sentiment analysis failed"
      [] st = Stage("ner", "failed") -> "Named Entity Recognition failed"
      [] st = Stage("ner", "disabled") ->
            "spaCy model not available - NER disabled"
      [] st = Stage("emotion", "failed") -> "Emotion analysis failed"
      [] st = Stage("summarize", "failed") -> "Text summarization failed"
      [] st = Stage("summarize", "disabled") ->
            "spaCy model not available - summarization disabled"
      [] OTHER -> "?"

\* the field of the section still holds what the handler started from
AtDefault(rd, name) ==
    CASE name = "sentiment" -> rd.sentiment = [label |-> "Unknown", score |-> 0]
      [] name = "ner"       -> rd.entities = << >>
      [] name = "emotion"   -> rd.emotions = {}
      [] name = "summarize" -> rd.summary = << >>
      [] OTHER              -> FALSE

NotOk == SelectSeq(stages, LAMBDA st : st.outcome # "ok")

BodyWarnings ==
    IF "warnings" \in DOMAIN response.body THEN response.body.warnings ELSE << >>

\* C1: a request with a non-blank text is answered 200 with the keys
\* sentiment, entities, emotions and summary, whatever each analyzer did, and
\* with the key warnings exactly when some analyzer failed or was disabled.
ClaimC1 ==
    (pc = "done" /\ NonBlankText) =>
        /\ response.status = 200
        /\ {"sentiment", "entities", "emotions", "summary"}
               \subseteq DOMAIN response.body
        /\ ("warnings" \in DOMAIN response.body) <=> (NotOk # << >>)

WitnessC1 ==
    /\ pc = "done" /\ NonBlankText
    /\ response.status = 200
    /\ Ended("sentiment", "failed") /\ Ended("ner", "disabled")
    /\ Ended("emotion", "ok")
    /\ "warnings" \in DOMAIN response.body

ClaimC3 ==
    (NonBlankText /\ Ended("summarize", "ok")) =>
        LET n == Len(Text.sents)
            k == (3 * n) \div 10
        IN  Len(response_data.summary) = IF k > 1 THEN k ELSE 1

\* C4, as claimed: the sentences of the summary keep the order they have in
\* the text.
ClaimC4 ==
    Ended("summarize", "ok") =>
        \A i, j \in 1..Len(summary_sentences) :
            i < j => summary_sentences[i] < summary_sentences[j]

\* C4, amended: the summary is made of sentences of the text, each taken
\* once, in order of non-increasing score, and two sentences of equal score
\* keep the order they have in the text.
ClaimC4Amended ==
    Ended("summarize", "ok") =>
        /\ Len(response_data.summary) = Len(summary_sentences)
        /\ \A i \in 1..Len(summary_sentences) :
             /\ summary_sentences[i] \in 1..Len(Text.sents)
             /\ response_data.summary[i] = Text.sents[summary_sentences[i]]
        /\ \A i, j \in 1..Len(summary_sentences) :
             i < j =>
               LET a == sentence_scores.val[summary_sentences[i]]
                   b == sentence_scores.val[summary_sentences[j]]
               IN  /\ a.num * b.den >= b.num * a.den
                   /\ a.num * b.den = b.num * a.den =>
                        summary_sentences[i] < summary_sentences[j]

WitnessC4 ==
    /\ Ended("summarize", "ok")
    /\ Len(summary_sentences) = 2
    /\ summary_sentences[1] > summary_sentences[2]

\* C5: a validated request goes through the four analyzer sections, each
\* once and in the order sentiment, entities, emotions, summary, whichever of
\* them raised, and is answered 200; each library the section may call is
\* called once, in that order.
ClaimC5 ==
    /\ Len(stages) <= Len(StageNames)
    /\ \A k \in 1..Len(stages) : stages[k].name = StageNames[k]
    /\ (pc = "done" /\ NonBlankText) =>
           /\ Len(stages) = Len(StageNames)
           /\ response.status = 200
           /\ calls = IF nlp = "none"
                      THEN <<"TextBlob", "NRCLex">>
                      ELSE <<"TextBlob", "nlp", "NRCLex", "nlp">>

WitnessC5 ==
    /\ pc = "done" /\ NonBlankText
    /\ Ended("sentiment", "failed") /\ Ended("ner", "failed")
    /\ Ended("emotion", "failed") /\ Ended("summarize", "ok")
    /\ response.status = 200

\* C6: without the model handle, a validated request is answered with no
\* entities, an empty summary, one 'NER disabled' and one 'summarization
\* disabled' warning, and sentiment and emotion analysis were still called.
ClaimC6 ==
    (pc = "done" /\ nlp = "none" /\ NonBlankText) =>
        /\ response.status = 200
        /\ response.body.entities = << >>
        /\ response.body.summary = << >>
        /\ Cardinality({ i \in 1..Len(BodyWarnings) : BodyWarnings[i] =
               "spaCy model not available - NER disabled" }) = 1
        /\ Cardinality({ i \in 1..Len(BodyWarnings) : BodyWarnings[i] =
               "spaCy model not available - summarization disabled" }) = 1
        /\ calls = <<"TextBlob", "NRCLex">>

WitnessC6 ==
    /\ pc = "done" /\ nlp = "none" /\ NonBlankText
    /\ response.status = 200
    /\ response.body.sentiment.label = "Positive"
    /\ response.body.emotions # {}

\* C7: when sentiment analysis succeeds the label is Positive exactly when
\* the polarity is above 0.1, Negative exactly when it is below -0.1, Neutral
\* otherwise (0.1 and -0.1 included), and the score is the polarity.
ClaimC7 ==
    Ended("sentiment", "ok") =>
        LET sent == response_data.sentiment IN
        /\ sent.score = polarity
        /\ sent.label = "Positive" <=> polarity > 10
        /\ sent.label = "Negative" <=> polarity < -10
        /\ sent.label = "Neutral" <=> (polarity >= -10 /\ polarity <= 10)

WitnessC7 ==
    /\ Ended("sentiment", "ok")
    /\ polarity = 10
    /\ response_data.sentiment.label = "Neutral"

\* C8: an analyzer that fails, wherever in its computation, or is disabled
\* leaves its field as the handler initialized it and adds one warning; one
\* that succeeds adds none: the warnings are those of the analyzers that did
\* not succeed, in the order sentiment, NER, emotion, summarization.
ClaimC8 ==
    /\ Len(response_data.warnings) = Len(NotOk)
    /\ \A i \in 1..Len(NotOk) :
         response_data.warnings[i] = ExpectedWarning(NotOk[i])
    /\ \A k \in 1..Len(stages) :
         stages[k].outcome # "ok" => AtDefault(response_data, stages[k].name)
    /\ (pc = "done" /\ response.status = 200) =>
         /\ Len(BodyWarnings) = Len(NotOk)
         /\ \A i \in 1..Len(NotOk) : BodyWarnings[i] = ExpectedWarning(NotOk[i])
         /\ \A k \in 1..Len(stages) :
              stages[k].outcome # "ok" =>
                  AtDefault(response.body, stages[k].name)

WitnessC8 ==
    /\ pc = "done" /\ response.status = 200
    /\ Ended("sentiment", "failed") /\ Ended("emotion", "ok")
    /\ Ended("summarize", "failed")
    /\ summary_sentences # << >>
    /\ response.body.summary = << >>
    /\ Len(response.body.warnings) = 2

\* C9: the frequency table of the summarizer never holds two keys that are
\* equal after lower-casing.
ClaimC9 ==
    \A a, b \in DOMAIN word_frequencies : Lower(a) = Lower(b) => a = b

\* C10: a request whose body has the key text is answered 400 or 200, never
\* 500.
ClaimC10 ==
    (pc = "done" /\ data.kind = "object" /\ "text" \in data.keys) =>
        response.status \in {200, 400}

====
